---- MODULE Spec2Model ----
(***************************************************************************)
(* A model of src/app.py, the Streamlit crypto balance dashboard: the      *)
(* price resolver and its 5 minute cache, the four balance fetchers, the   *)
(* Dashboard aggregation loop, and the config.json persistence behind the  *)
(* Add / Edit Sources page.                                                *)
(*                                                                         *)
(* Quantities are fixed point: an amount or a USD value is an integer      *)
(* number of 1/Scale units (Scale = 10, so 1.5 is 15).  A price is a whole *)
(* number of USD per unit of the asset.  Inputs are chosen so that every   *)
(* quotient the code computes is exact at this scale.                      *)
(***************************************************************************)
EXTENDS Integers, Sequences, FiniteSets, TLC

VARIABLES
    now,        \* the clock read by the cache of price_usdt (seconds)
    ticks,      \* how many times the clock has advanced (bounds the model)
    cache,      \* st.cache_data store of price_usdt: argument -> entry
    lastPrice,  \* the last call of price_usdt: its argument, path and result
    call,       \* one call of a fetcher: its input and, once run, its result
    dash,       \* the last Dashboard pass: registry, upstream world, result
    file,       \* the content of config.json
    sess,       \* per browser session: st.session_state.cfg
    saved,      \* labels written to config.json and not deleted since
    run         \* the last script run: session, page, what it did

vars == <<now, ticks, cache, lastPrice, call, dash, file, sess, saved, run>>

\* ---------------------------------------------------------------- bounds
MaxTicks == 3
MaxLen == 2
MaxAccounts == 2
MaxAddresses == 2
NumSessions == 2

\* One unit of an asset or one USD, in fixed point units.
Scale == 2 * 5

\* ------------------------------------------------------- price resolver
TTL == 300

NoEntry == [none |-> TRUE]
NoCall == [none |-> TRUE]

\* The arguments price_usdt is called with in this model.
Assets == {"BTC", "btc", "ETH", "USDT", "usdt", "So1111"}

\* str.upper() on the arguments above.
Upper(a) ==
    CASE a = "btc" -> "BTC"
      [] a = "usdt" -> "USDT"
      [] a = "So1111" -> "SO1111"
      [] OTHER -> a

Stablecoins == {"USDT", "BUSD", "FDUSD"}

\* What the ticker endpoint can answer to one request.
\*   net:    the transport outcome of requests.get
\*   status: the HTTP status
\*   body:   the JSON document ("p2" is {"price": "2.0"})
TickerReplies ==
    {[net |-> "ok", status |-> 200, body |-> "p2"],
     [net |-> "ok", status |-> 200, body |-> "p3"],
     [net |-> "ok", status |-> 400, body |-> "unknown_pair"],
     [net |-> "ok", status |-> 500, body |-> "not_json"],
     [net |-> "ok", status |-> 200, body |-> "not_json"],
     [net |-> "ok", status |-> 200, body |-> "no_price_key"],
     [net |-> "ok", status |-> 200, body |-> "price_not_a_number"],
     [net |-> "conn_error", status |-> 0, body |-> "none"],
     [net |-> "timeout", status |-> 0, body |-> "none"]}

\* A reply that carries a usable price.
TickerOk(reply) ==
    reply.net = "ok" /\ reply.status = 200 /\ reply.body \in {"p2", "p3"}

\* The exception classes the lookup can raise; all derive from Exception.
RequestsExceptions == {"ConnectionError", "Timeout", "HTTPError", "JSONDecodeError"}
ExceptionClasses == RequestsExceptions \cup {"KeyError", "ValueError", "TypeError"}

\* The try body of price_usdt: the request, raise_for_status, the parse.
ticker_lookup(reply) ==
    IF reply.net = "conn_error" THEN [exc |-> "ConnectionError", value |-> 0]
    ELSE IF reply.net = "timeout" THEN [exc |-> "Timeout", value |-> 0]
    ELSE IF reply.status >= 400 THEN [exc |-> "HTTPError", value |-> 0]
    ELSE IF reply.body = "not_json" THEN [exc |-> "JSONDecodeError", value |-> 0]
    ELSE IF reply.body = "no_price_key" THEN [exc |-> "KeyError", value |-> 0]
    ELSE IF reply.body = "price_not_a_number" THEN [exc |-> "ValueError", value |-> 0]
    ELSE IF reply.body = "p2" THEN [exc |-> "none", value |-> 2]
    ELSE [exc |-> "none", value |-> 3]

\* A handler that names only the transport errors.
CaughtRequestsOnly(exc) == exc \in RequestsExceptions

\* `except Exception`.
Caught(exc) == exc \in ExceptionClasses

\* The undecorated body of price_usdt.
price_body(asset, reply) ==
    IF Upper(asset) \in Stablecoins
    THEN [value |-> 1, requested |-> FALSE, raised |-> "none"]
    ELSE LET r == ticker_lookup(reply) IN
         IF r.exc = "none"
         THEN [value |-> r.value, requested |-> TRUE, raised |-> "none"]
         ELSE IF Caught(r.exc)
              THEN [value |-> 0, requested |-> TRUE, raised |-> "none"]
              ELSE [value |-> 0, requested |-> TRUE, raised |-> r.exc]

\* An entry that is served up to and including its expiry instant.
CacheHitInclusive(c, asset, t) == c[asset] # NoEntry /\ t <= c[asset].expires

\* st.cache_data(ttl=300): an entry is served while the clock is before its
\* expiry, which is set to the store time plus the ttl.
CacheHit(c, asset, t) == c[asset] # NoEntry /\ t < c[asset].expires

\* price_usdt as callers see it: the cache in front of the body.  The cache
\* key is the argument as passed.  Only a returned value is stored.
price_usdt(asset, reply, c, t) ==
    IF CacheHit(c, asset, t)
    THEN [value |-> c[asset].value, requested |-> FALSE, raised |-> "none",
          hit |-> TRUE, cache |-> c]
    ELSE LET b == price_body(asset, reply) IN
         [value |-> b.value, requested |-> b.requested, raised |-> b.raised,
          hit |-> FALSE,
          cache |-> IF b.raised = "none"
                    THEN [c EXCEPT ![asset] =
                            [value |-> b.value, stored |-> t, expires |-> t + TTL]]
                    ELSE c]

\* The clock advances, by one second or by just under the ttl.
Tick ==
    /\ ticks < MaxTicks
    /\ \E d \in {1, TTL - 1} : now' = now + d
    /\ ticks' = ticks + 1
    /\ UNCHANGED <<cache, lastPrice, call, dash, file, sess, saved, run>>

\* The calls made while the clock runs: a pair in upper case, the same pair
\* in lower case, a stablecoin in lower case; the ticker answers a price,
\* another price, or not at all.
PriceArgs == {"BTC", "btc", "usdt"}
PriceReplies == {r \in TickerReplies : TickerOk(r) \/ r.net = "timeout"}

\* One call price_usdt(asset) while the ticker would answer `reply`.
PriceCall ==
    \E asset \in PriceArgs, reply \in PriceReplies :
        LET r == price_usdt(asset, reply, cache, now) IN
        /\ cache' = r.cache
        /\ lastPrice' = [asset |-> asset, at |-> now, before |-> cache[asset],
                         requested |-> r.requested,
                         hit |-> r.hit, value |-> r.value, raised |-> r.raised]
        /\ UNCHANGED <<now, ticks, call, dash, file, sess, saved, run>>

\* ------------------------------------------------------------- fetchers
\* What the market answers for each ticker pair during one fetch.  A pair
\* the exchange does not list is answered with HTTP 400.
UnknownPair == [net |-> "ok", status |-> 400, body |-> "unknown_pair"]
Listed == {"BTC", "ETH"}
MarketReplies ==
    {[net |-> "ok", status |-> 200, body |-> "p2"],
     [net |-> "ok", status |-> 200, body |-> "p3"],
     [net |-> "ok", status |-> 200, body |-> "no_price_key"],
     [net |-> "ok", status |-> 500, body |-> "not_json"],
     [net |-> "timeout", status |-> 0, body |-> "none"]}
Markets == [Listed -> MarketReplies]
MarketReply(market, asset) ==
    IF Upper(asset) \in DOMAIN market THEN market[Upper(asset)] ELSE UnknownPair

\* requests.get followed by raise_for_status: the exception raised, if any.
http_error(reply) ==
    IF reply.net = "conn_error" THEN "ConnectionError"
    ELSE IF reply.net = "timeout" THEN "Timeout"
    ELSE IF reply.status >= 400 THEN "HTTPError"
    ELSE "none"

\* A Python truth test on a number.
Truthy(x) == x # 0

Record(asset, amount, price, src) ==
    [asset |-> asset, amount |-> amount, usd |-> amount * price, src |-> src]

Returned(out, c) == [raised |-> "none", out |-> out, cache |-> c]
Raised(exc, c) == [raised |-> exc, out |-> <<>>, cache |-> c]

\* float() on the strings the exchange sends, in fixed point units.
ParseFloat(s) ==
    CASE s = "1.0" -> Scale
      [] s = "0.5" -> Scale \div 2
      [] s = "-1.0" -> 0 - Scale
      [] OTHER -> 0

\* Balance entries of the exchange account document.
BinanceEntries ==
    {[asset |-> "BTC", free |-> "1.0", locked |-> "0.5"],
     [asset |-> "ETH", free |-> "0", locked |-> "0"],
     [asset |-> "USDT", free |-> "0.5", locked |-> "0"],
     [asset |-> "ETH", free |-> "1.0", locked |-> "0"],
     [asset |-> "ETH", free |-> "-1.0", locked |-> "0"]}

\* The loop of fetch_binance over data["balances"], from entry i on.
RECURSIVE binance_loop(_, _, _, _, _, _)
binance_loop(bals, i, out, market, c, t) ==
    IF i > Len(bals) THEN Returned(out, c)
    ELSE LET b == bals[i]
             tot == ParseFloat(b.free) + ParseFloat(b.locked)
         IN  IF Truthy(tot)
             THEN LET p == price_usdt(b.asset, MarketReply(market, b.asset), c, t) IN
                  IF p.raised # "none" THEN Raised(p.raised, p.cache)
                  ELSE binance_loop(bals, i + 1,
                                    Append(out, Record(b.asset, tot, p.value, "Binance")),
                                    market, p.cache, t)
             ELSE binance_loop(bals, i + 1, out, market, c, t)

\* fetch_binance: the signed request, then the loop.  The timestamp and the
\* signature decide only what the exchange answers, which is `reply`.
fetch_binance(reply, market, c, t) ==
    IF http_error(reply) # "none" THEN Raised(http_error(reply), c)
    ELSE binance_loop(reply.body, 1, <<>>, market, c, t)

\* Token entries of the EVM token list.  amount and price are JSON numbers
\* in fixed point units; Absent and NoKey stand for a key the entry lacks.
Field(n) == [kind |-> "number", num |-> n]
Absent == [kind |-> "absent", num |-> 0]
Null == [kind |-> "null", num |-> 0]
NoKey == "<absent>"
EthEntries ==
    {[id |-> "ETH", symbol |-> "ETH", amount |-> Field(Scale), price |-> Field(3)],
     [id |-> "ETH", symbol |-> "ETH", amount |-> Field(Scale), price |-> Absent],
     [id |-> "btc", symbol |-> NoKey, amount |-> Field(2 * Scale), price |-> Absent],
     [id |-> "USDT", symbol |-> "USDT", amount |-> Field(0), price |-> Field(1)],
     [id |-> "ETH", symbol |-> "ETH", amount |-> Absent, price |-> Absent],
     [id |-> "ETH", symbol |-> "ETH", amount |-> Field(0 - Scale), price |-> Field(3)]}

\* dict.get(key, default) on a field that is present or absent.
Get(field, default) == IF field = Absent THEN default ELSE field.num

\* The loop of fetch_eth over the token list, from entry i on.  Both
\* defaults are evaluated before the lookup they default: price_usdt(sym)
\* is called for every non-zero token, also when the provider sent a price.
RECURSIVE eth_loop(_, _, _, _, _, _)
eth_loop(tokens, i, out, market, c, t) ==
    IF i > Len(tokens) THEN Returned(out, c)
    ELSE LET tk == tokens[i]
             amt == Get(tk.amount, 0)
         IN  IF Truthy(amt)
             THEN LET sym == IF tk.symbol = NoKey THEN tk.id ELSE tk.symbol
                      p == price_usdt(sym, MarketReply(market, sym), c, t)
                      price == Get(tk.price, p.value)
                  IN  IF p.raised # "none" THEN Raised(p.raised, p.cache)
                      ELSE eth_loop(tokens, i + 1,
                                    Append(out, Record(sym, amt, price, "ETH")),
                                    market, p.cache, t)
             ELSE eth_loop(tokens, i + 1, out, market, c, t)

\* fetch_eth.  The optional AccessKey header decides only what the provider
\* answers, which is `reply`.
fetch_eth(reply, market, c, t) ==
    IF http_error(reply) # "none" THEN Raised(http_error(reply), c)
    ELSE eth_loop(reply.body, 1, <<>>, market, c, t)

\* fetch_btc: satoshi to BTC, always one record.
SatPerBtc == 100000000
fetch_btc(reply, market, c, t) ==
    IF http_error(reply) # "none" THEN Raised(http_error(reply), c)
    ELSE LET sat == Get(reply.body, 0)
             btc == sat \div (SatPerBtc \div Scale)
             p == price_usdt("BTC", MarketReply(market, "BTC"), c, t)
         IN  IF p.raised # "none" THEN Raised(p.raised, p.cache)
             ELSE Returned(<<Record("BTC", btc, p.value, "BTC")>>, p.cache)

\* The body of an indexer reply: a token list, or JSON null (None).
List(l) == [kind |-> "list", list |-> l]
NoList == [kind |-> "null", list |-> <<>>]

\* The two URL variants of fetch_sol, in the order they are tried.
Variants == <<"?account=", "?address=">>

\* A chain that moves on after any error status, not only after 404.
RECURSIVE sol_variants_skip_errors(_, _, _)
sol_variants_skip_errors(replies, i, reqs) ==
    IF i > Len(Variants) THEN [exc |-> "none", tokens |-> NoList, requests |-> reqs]
    ELSE LET r == replies[i]
             sent == Append(reqs, Variants[i])
         IN  IF r.net # "ok"
             THEN [exc |-> http_error(r), tokens |-> NoList, requests |-> sent]
             ELSE IF r.status >= 400 THEN sol_variants_skip_errors(replies, i + 1, sent)
             ELSE [exc |-> "none", tokens |-> r.body, requests |-> sent]

\* The variant chain of fetch_sol: replies[i] is what the indexer answers to
\* variant i.  `requests` lists the variants actually requested.
RECURSIVE sol_variants(_, _, _)
sol_variants(replies, i, reqs) ==
    IF i > Len(Variants) THEN [exc |-> "none", tokens |-> NoList, requests |-> reqs]
    ELSE LET r == replies[i]
             sent == Append(reqs, Variants[i])
         IN  IF r.net # "ok"
             THEN [exc |-> http_error(r), tokens |-> NoList, requests |-> sent]
             ELSE IF r.status = 404 THEN sol_variants(replies, i + 1, sent)
             ELSE IF http_error(r) # "none"
                  THEN [exc |-> http_error(r), tokens |-> NoList, requests |-> sent]
                  ELSE [exc |-> "none", tokens |-> r.body, requests |-> sent]

\* int() on the amount strings the indexer sends.
IntStrings == {"1000000", "150", "0", "-1000000"}
ParseInt(s) ==
    CASE s = "1000000" -> 1000000
      [] s = "150" -> 150
      [] s = "-1000000" -> 0 - 1000000
      [] OTHER -> 0

RECURSIVE Pow10(_)
Pow10(n) == IF n = 0 THEN 1 ELSE 10 * Pow10(n - 1)

\* Token entries of the indexer's list.  tokenAmount is an object, JSON null
\* or absent; amount is a string, "<null>" for JSON null or absent;
\* decimals is a number, JSON null or absent.
NullStr == "<null>"
TA(amount, decimals) == [kind |-> "object", amount |-> amount, decimals |-> decimals]
NoTA == [kind |-> "absent", amount |-> NoKey, decimals |-> Absent]
NullTA == [kind |-> "null", amount |-> NoKey, decimals |-> Absent]
SolEntry(ta, sym, mint) == [tokenAmount |-> ta, tokenSymbol |-> sym, mintAddress |-> mint]
SolEntries ==
    {SolEntry(TA("1000000", Field(6)), "USDT", "Es9vMFrzaCER"),
     SolEntry(TA("150", Field(2)), NoKey, "So1111abcdef"),
     SolEntry(TA("0", Field(6)), "BTC", "9n4nbM75f5Ui"),
     SolEntry(TA("1000000", Field(0)), "BTC", "9n4nbM75f5Ui"),
     SolEntry(TA("1000000", Absent), "BTC", "9n4nbM75f5Ui"),
     SolEntry(TA("1000000", Null), "BTC", "9n4nbM75f5Ui"),
     SolEntry(NoTA, "BTC", "9n4nbM75f5Ui"),
     SolEntry(NullTA, "BTC", "9n4nbM75f5Ui"),
     SolEntry(TA(NoKey, Field(6)), "BTC", "9n4nbM75f5Ui"),
     SolEntry(TA("abc", Field(6)), "BTC", "9n4nbM75f5Ui"),
     SolEntry(TA(NullStr, Field(6)), "BTC", "9n4nbM75f5Ui"),
     SolEntry(TA("-1000000", Field(6)), "BTC", "9n4nbM75f5Ui")}

\* The try block of fetch_sol for one entry: the exception raised, if any,
\* and the quantity in fixed point units.
sol_amount(tk) ==
    IF tk.tokenAmount = NoTA THEN [exc |-> "KeyError", amt |-> 0]
    ELSE IF tk.tokenAmount = NullTA THEN [exc |-> "TypeError", amt |-> 0]
    ELSE LET a == tk.tokenAmount.amount
             d == tk.tokenAmount.decimals
         IN  IF a = NoKey THEN [exc |-> "KeyError", amt |-> 0]
             ELSE IF a = NullStr THEN [exc |-> "TypeError", amt |-> 0]
             ELSE IF a \notin IntStrings THEN [exc |-> "ValueError", amt |-> 0]
             ELSE LET lamports == ParseInt(a)
                      dec == IF d \in {Absent, Null} THEN 0 ELSE d.num
                  IN  [exc |-> "none",
                       amt |-> IF Truthy(dec)
                               THEN (lamports * Scale) \div Pow10(dec)
                               ELSE 0]

\* str[:6] on the mint addresses above.
Prefix6(mint) == IF mint = "So1111abcdef" THEN "So1111" ELSE "other"

\* `except (KeyError, ValueError)`.
SolSkipped(exc) == exc \in {"KeyError", "ValueError"}

\* The loop of fetch_sol over the token list, from entry i on.
RECURSIVE sol_loop(_, _, _, _, _, _)
sol_loop(tokens, i, out, market, c, t) ==
    IF i > Len(tokens) THEN Returned(out, c)
    ELSE LET tk == tokens[i]
             a == sol_amount(tk)
         IN  IF a.exc # "none"
             THEN IF SolSkipped(a.exc)
                  THEN sol_loop(tokens, i + 1, out, market, c, t)
                  ELSE Raised(a.exc, c)
             ELSE IF Truthy(a.amt)
                  THEN LET sym == IF tk.tokenSymbol # NoKey THEN tk.tokenSymbol
                                  ELSE Prefix6(tk.mintAddress)
                           p == price_usdt(sym, MarketReply(market, sym), c, t)
                       IN  IF p.raised # "none" THEN Raised(p.raised, p.cache)
                           ELSE sol_loop(tokens, i + 1,
                                         Append(out, Record(sym, a.amt, p.value, "SOL")),
                                         market, p.cache, t)
                  ELSE sol_loop(tokens, i + 1, out, market, c, t)

\* fetch_sol: the variant chain, then the loop.
fetch_sol(replies, market, c, t) ==
    LET v == sol_variants(replies, 1, <<>>) IN
    IF v.exc # "none" THEN Raised(v.exc, c) @@ [requests |-> v.requests]
    ELSE IF v.tokens = NoList THEN Returned(<<>>, c) @@ [requests |-> v.requests]
    ELSE sol_loop(v.tokens.list, 1, <<>>, market, c, t) @@ [requests |-> v.requests]

\* ------------------------------------------------- calls of the fetchers
\* Sequences over S of length at most n.
SeqsUpTo(S, n) == UNION {[1..k -> S] : k \in 0..n}

Ok(body) == [net |-> "ok", status |-> 200, body |-> body]
\* Replies that make raise_for_status or the transport fail.
Failures(body) ==
    {[net |-> "ok", status |-> 401, body |-> body],
     [net |-> "ok", status |-> 500, body |-> body],
     [net |-> "timeout", status |-> 0, body |-> body]}
NotFound(body) == [net |-> "ok", status |-> 404, body |-> body]

BinanceReplies == {Ok(b) : b \in SeqsUpTo(BinanceEntries, MaxLen)} \cup Failures(<<>>)
EthReplies == {Ok(b) : b \in SeqsUpTo(EthEntries, MaxLen)} \cup Failures(<<>>)
BtcReplies ==
    {Ok(Field(150000000)), Ok(Field(50000000)), Ok(Field(0)), Ok(Absent)}
        \cup Failures(Absent)
SolLists == {List(l) : l \in SeqsUpTo(SolEntries, MaxLen)}
SolReplies ==
    {Ok(b) : b \in SolLists \cup {NoList}} \cup Failures(NoList) \cup {NotFound(NoList)}
\* What a variant that is not reached may answer.
SolLater == {Ok(List(<<>>)), NotFound(NoList)} \cup Failures(NoList)

NoCache == [a \in Assets |-> NoEntry]
Idle == [fn |-> "idle", done |-> TRUE]

Input(fn, reply, market) == [fn |-> fn, reply |-> reply, market |-> market, done |-> FALSE]

Done(r) == [done |-> TRUE, raised |-> r.raised, out |-> r.out]

\* One call fetch_binance(key, secret).
CallBinance ==
    /\ call.fn = "binance" /\ ~call.done
    /\ LET r == fetch_binance(call.reply, call.market, cache, now) IN
       /\ call' = Done(r) @@ call
       /\ cache' = r.cache
    /\ UNCHANGED <<now, ticks, lastPrice, dash, file, sess, saved, run>>

\* One call fetch_eth(addr, debank_key).
CallEth ==
    /\ call.fn = "eth" /\ ~call.done
    /\ LET r == fetch_eth(call.reply, call.market, cache, now) IN
       /\ call' = Done(r) @@ call
       /\ cache' = r.cache
    /\ UNCHANGED <<now, ticks, lastPrice, dash, file, sess, saved, run>>

\* One call fetch_sol(addr).
CallSol ==
    /\ call.fn = "sol" /\ ~call.done
    /\ LET r == fetch_sol(call.reply, call.market, cache, now) IN
       /\ call' = (Done(r) @@ [requests |-> r.requests]) @@ call
       /\ cache' = r.cache
    /\ UNCHANGED <<now, ticks, lastPrice, dash, file, sess, saved, run>>

\* One call fetch_btc(addr).
CallBtc ==
    /\ call.fn = "btc" /\ ~call.done
    /\ LET r == fetch_btc(call.reply, call.market, cache, now) IN
       /\ call' = Done(r) @@ call
       /\ cache' = r.cache
    /\ UNCHANGED <<now, ticks, lastPrice, dash, file, sess, saved, run>>

\* One call price_usdt(asset) on an empty cache; call.reply is the asset
\* and call.market the ticker's reply.
CallPrice ==
    /\ call.fn = "price" /\ ~call.done
    /\ LET r == price_usdt(call.reply, call.market, cache, now) IN
       /\ call' = [done |-> TRUE, raised |-> r.raised, out |-> r.value,
                   requested |-> r.requested] @@ call
       /\ cache' = r.cache
    /\ UNCHANGED <<now, ticks, lastPrice, dash, file, sess, saved, run>>

\* ------------------------------------------------------ Dashboard page
\* agg is a dict in insertion order: a sequence of [asset, usd].
HasAsset(agg, asset) == \E i \in 1..Len(agg) : agg[i].asset = asset

\* agg[asset] = usd, dropping what the asset had.
agg_overwrite(agg, asset, usd) ==
    IF HasAsset(agg, asset)
    THEN [i \in 1..Len(agg) |->
            IF agg[i].asset = asset THEN [asset |-> asset, usd |-> usd] ELSE agg[i]]
    ELSE Append(agg, [asset |-> asset, usd |-> usd])

\* agg[asset] = agg.get(asset, 0) + usd
agg_add(agg, asset, usd) ==
    IF HasAsset(agg, asset)
    THEN [i \in 1..Len(agg) |->
            IF agg[i].asset = asset
            THEN [asset |-> asset, usd |-> agg[i].usd + usd]
            ELSE agg[i]]
    ELSE Append(agg, [asset |-> asset, usd |-> usd])

\* The inner loop: every record of one fetch result is added to agg.
RECURSIVE agg_records(_, _, _)
agg_records(agg, recs, i) ==
    IF i > Len(recs) THEN agg
    ELSE agg_records(agg_add(agg, recs[i].asset, recs[i].usd), recs, i + 1)

\* The if / elif / else on info["CHAIN"].
fetch_address(info, market, c, t) ==
    IF info.chain = "ETH" THEN fetch_eth(info.reply, market, c, t)
    ELSE IF info.chain = "SOL" THEN fetch_sol(info.reply, market, c, t)
    ELSE fetch_btc(info.reply, market, c, t)

\* One iteration's try / except: the records are added, or the label and
\* the error are reported with st.error.
after_fetch(st, label, r) ==
    IF r.raised = "none"
    THEN [agg |-> agg_records(st.agg, r.out, 1), errors |-> st.errors,
          cache |-> r.cache, stopped |-> FALSE]
    ELSE [agg |-> st.agg, errors |-> Append(st.errors, [label |-> label, exc |-> r.raised]),
          cache |-> r.cache, stopped |-> FALSE]

\* A loop whose first failing fetch ends the pass.
RECURSIVE dash_sources_abort(_, _, _, _, _)
dash_sources_abort(srcs, i, st, market, t) ==
    IF i > Len(srcs) \/ st.stopped THEN st
    ELSE LET src == srcs[i]
             r == IF src.kind = "accounts"
                  THEN fetch_binance(src.reply, market, st.cache, t)
                  ELSE fetch_address(src, market, st.cache, t)
             nxt == after_fetch(st, src.label, r)
         IN  dash_sources_abort(srcs, i + 1,
                                [nxt EXCEPT !.stopped = (r.raised # "none")], market, t)

\* The two for loops of the Dashboard page, over cfg["accounts"] and then
\* cfg["addresses"], from source i on.
RECURSIVE dash_sources(_, _, _, _, _)
dash_sources(srcs, i, st, market, t) ==
    IF i > Len(srcs) THEN st
    ELSE LET src == srcs[i]
             r == IF src.kind = "accounts"
                  THEN fetch_binance(src.reply, market, st.cache, t)
                  ELSE fetch_address(src, market, st.cache, t)
         IN  dash_sources(srcs, i + 1, after_fetch(st, src.label, r), market, t)

RECURSIVE SumUsd(_, _)
SumUsd(items, i) == IF i > Len(items) THEN 0 ELSE items[i].usd + SumUsd(items, i + 1)

\* The order of the sort key: x goes before y.
Before(x, y, reverse) == IF reverse THEN x.usd > y.usd ELSE x.usd < y.usd

\* Insert x in front of the first element it goes before: behind its equals.
RECURSIVE InsertBy(_, _, _, _)
InsertBy(sorted, x, i, reverse) ==
    IF i > Len(sorted) THEN Append(sorted, x)
    ELSE IF Before(x, sorted[i], reverse)
         THEN SubSeq(sorted, 1, i - 1) \o <<x>> \o SubSeq(sorted, i, Len(sorted))
         ELSE InsertBy(sorted, x, i + 1, reverse)

\* sorted(items, key=lambda x: x[1], reverse=reverse): a stable sort.
RECURSIVE SortBy(_, _, _, _)
SortBy(items, i, acc, reverse) ==
    IF i > Len(items) THEN acc
    ELSE SortBy(items, i + 1, InsertBy(acc, items[i], 1, reverse), reverse)

\* The sort without reverse=True: ascending.
sorted_ascending(items) == SortBy(items, 1, <<>>, FALSE)

\* sorted(agg.items(), key=lambda x: x[1], reverse=True): descending by
\* value, equal values in their order in agg.
sorted_by_usd(items) == SortBy(items, 1, <<>>, TRUE)

\* The upstream worlds of the Dashboard runs: what each kind of source can
\* answer.  A registry entry names its answer by position in these tables,
\* and a source's label is its collection and its position in it.
DashBinance ==
    <<Ok(<<[asset |-> "BTC", free |-> "1.0", locked |-> "0.5"]>>),
      Ok(<<[asset |-> "ETH", free |-> "1.0", locked |-> "0"],
           [asset |-> "USDT", free |-> "0.5", locked |-> "0"]>>),
      [net |-> "ok", status |-> 401, body |-> <<>>]>>
DashEth ==
    <<Ok(<<[id |-> "ETH", symbol |-> "ETH", amount |-> Field(5), price |-> Field(2)]>>),
      Ok(<<[id |-> "ETH", symbol |-> "ETH", amount |-> Field(5), price |-> Field(1)],
           [id |-> "BTC", symbol |-> "BTC", amount |-> Field(Scale), price |-> Field(2)]>>),
      [net |-> "timeout", status |-> 0, body |-> <<>>]>>
DashSol ==
    <<<<NotFound(NoList),
        Ok(List(<<SolEntry(TA("1000000", Field(6)), "USDT", "Es9vMFrzaCER")>>))>>,
      <<[net |-> "ok", status |-> 500, body |-> NoList], NotFound(NoList)>>>>
DashBtc == <<Ok(Field(150000000)), [net |-> "ok", status |-> 500, body |-> Absent]>>
DashAccounts == {[chain |-> "none", pick |-> k] : k \in 1..Len(DashBinance)}
DashAddresses ==
    {[chain |-> "ETH", pick |-> k] : k \in 1..Len(DashEth)}
        \cup {[chain |-> "SOL", pick |-> k] : k \in 1..Len(DashSol)}
        \cup {[chain |-> "BTC", pick |-> k] : k \in 1..Len(DashBtc)}
ReplyOf(kind, entry) ==
    IF kind = "accounts" THEN DashBinance[entry.pick]
    ELSE IF entry.chain = "ETH" THEN DashEth[entry.pick]
    ELSE IF entry.chain = "SOL" THEN DashSol[entry.pick]
    ELSE DashBtc[entry.pick]

\* The sources of a registry in the order the page visits them.
Sources(d) ==
    [i \in 1..Len(d.accounts) |->
        [kind |-> "accounts", label |-> <<"accounts", i>>, chain |-> "none",
         reply |-> ReplyOf("accounts", d.accounts[i])]]
    \o
    [i \in 1..Len(d.addresses) |->
        [kind |-> "addresses", label |-> <<"addresses", i>>, chain |-> d.addresses[i].chain,
         reply |-> ReplyOf("addresses", d.addresses[i])]]

\* One run of the script with page = "Dashboard".
DashboardPage ==
    /\ ~dash.done
    /\ LET st == dash_sources(Sources(dash), 1,
                              [agg |-> <<>>, errors |-> <<>>, cache |-> cache,
                               stopped |-> FALSE],
                              dash.market, now)
       IN  /\ dash' = [done |-> TRUE, agg |-> st.agg, errors |-> st.errors,
                       total |-> SumUsd(st.agg, 1),
                       rows |-> sorted_by_usd(st.agg)] @@ dash
           /\ cache' = st.cache
    /\ UNCHANGED <<now, ticks, lastPrice, call, file, sess, saved, run>>

DashMarkets ==
    {m \in Markets : m["BTC"].body \in {"p2", "none"} /\ m["ETH"].body = "p3"}

\* ------------------------------------------------ config.json and pages
\* A JSON document or an in-memory cfg: the expected object (accounts: the
\* set of labels; addresses: label and chain of each entry, labels unique),
\* or another valid JSON value (a list).  A file can also be absent or hold
\* text that is not JSON.
Object(accounts, addresses) ==
    [kind |-> "object", accounts |-> accounts, addresses |-> addresses]
Other(kind) == [kind |-> kind, accounts |-> {}, addresses |-> {}]
EmptyCfg == Object({}, {})
Unset == Other("unset")

Sessions == 1..NumSessions
AccLabels == {"Sub1"}
AddrLabels == {"MyETH"}
Chains == {"ETH", "SOL", "BTC"}
Pages == {"Dashboard", "Accounts", "Add / Edit Sources"}
WriteOutcomes == {"written", "refused", "truncated"}

\* load_config: an absent file and a JSONDecodeError give the empty
\* configuration, the second with st.error; any document json.loads accepts
\* is returned as it is.
load_config(f) ==
    IF f.kind = "absent" THEN [cfg |-> EmptyCfg, warned |-> FALSE]
    ELSE IF f.kind = "invalid" THEN [cfg |-> EmptyCfg, warned |-> TRUE]
    ELSE [cfg |-> f, warned |-> FALSE]

\* save_config: write_text replaces the file.  When it raises (refused: the
\* file is left as it was; truncated: it was opened and not written out),
\* the handler calls st.error and then calls what st.error returned, which
\* is not callable: a TypeError leaves save_config.
save_config(cfg, outcome, f) ==
    IF outcome = "written"
    THEN [file |-> cfg, reported |-> FALSE, raised |-> "none"]
    ELSE [file |-> IF outcome = "truncated" THEN Other("invalid") ELSE f,
          reported |-> TRUE, raised |-> "TypeError"]

\* The session bootstrap: load_config only when the session has no cfg yet.
bootstrap(s) ==
    IF sess[s] = Unset
    THEN LET l == load_config(file) IN
         [cfg |-> l.cfg, warned |-> l.warned, from |-> file.kind]
    ELSE [cfg |-> sess[s], warned |-> FALSE, from |-> "session"]

Labels(cfg) ==
    {<<"accounts", l>> : l \in cfg.accounts}
        \cup {<<"addresses", a.label>> : a \in cfg.addresses}

Ran(s, page, op, b, crashed, wrote, reported) ==
    [none |-> FALSE, session |-> s, page |-> page, op |-> op, from |-> b.from,
     loaded |-> b.cfg, warned |-> b.warned, crashed |-> crashed, wrote |-> wrote,
     reported |-> reported]

\* A run that only shows a page.  The first cfg.get on a cfg that is not a
\* dict raises AttributeError.  The fetches of the Dashboard and Accounts
\* pages do not touch the configuration; DashboardPage models them.
ViewPage ==
    \E s \in Sessions, page \in Pages :
        LET b == bootstrap(s) IN
        /\ sess' = [sess EXCEPT ![s] = b.cfg]
        /\ run' = Ran(s, page, "view", b,
                      IF b.cfg.kind = "object" THEN "none" ELSE "AttributeError",
                      "none", FALSE)
        /\ UNCHANGED <<now, ticks, cache, lastPrice, call, dash, file, saved>>

\* A run of the Add / Edit Sources page that changes cfg to `changed` and
\* saves it; `gone` are the labels the run deletes.
Edit(s, op, b, changed, gone) ==
    IF b.cfg.kind # "object"
    THEN /\ sess' = [sess EXCEPT ![s] = b.cfg]
         /\ run' = Ran(s, "Add / Edit Sources", op, b, "AttributeError", "none", FALSE)
         /\ UNCHANGED <<file, saved>>
    ELSE \E outcome \in WriteOutcomes :
            LET w == save_config(changed, outcome, file) IN
            /\ sess' = [sess EXCEPT ![s] = changed]
            /\ file' = w.file
            /\ saved' = IF outcome = "written"
                        THEN (saved \ gone) \cup Labels(changed)
                        ELSE saved \ gone
            /\ run' = Ran(s, "Add / Edit Sources", op, b, w.raised, outcome, w.reported)

\* The "Save" button of the Binance form, with every field filled in.
AddAccount ==
    \E s \in Sessions, label \in AccLabels :
        LET b == bootstrap(s) IN
        /\ Edit(s, "add", b,
                Object(b.cfg.accounts \cup {label}, b.cfg.addresses), {})
        /\ UNCHANGED <<now, ticks, cache, lastPrice, call, dash>>

\* The "Save" button of the address form, with every field filled in.
AddAddress ==
    \E s \in Sessions, label \in AddrLabels, chain \in Chains :
        LET b == bootstrap(s) IN
        /\ Edit(s, "add", b,
                Object(b.cfg.accounts,
                       {a \in b.cfg.addresses : a.label # label}
                           \cup {[label |-> label, chain |-> chain]}), {})
        /\ UNCHANGED <<now, ticks, cache, lastPrice, call, dash>>

\* The delete button next to a listed account.
DeleteAccount ==
    \E s \in Sessions, label \in AccLabels :
        LET b == bootstrap(s) IN
        /\ label \in b.cfg.accounts
        /\ Edit(s, "delete", b,
                Object(b.cfg.accounts \ {label}, b.cfg.addresses),
                {<<"accounts", label>>})
        /\ UNCHANGED <<now, ticks, cache, lastPrice, call, dash>>

\* The delete button next to a listed address.
DeleteAddress ==
    \E s \in Sessions, label \in AddrLabels :
        LET b == bootstrap(s) IN
        /\ \E a \in b.cfg.addresses : a.label = label
        /\ Edit(s, "delete", b,
                Object(b.cfg.accounts, {a \in b.cfg.addresses : a.label # label}),
                {<<"addresses", label>>})
        /\ UNCHANGED <<now, ticks, cache, lastPrice, call, dash>>

\* The documents config.json can hold when the application starts.
StartFiles ==
    {Other("absent"), Other("invalid"), Other("list"), EmptyCfg,
     Object({"Sub1"}, {[label |-> "MyETH", chain |-> "ETH"]})}

NoConfig ==
    /\ file = Other("absent")
    /\ sess = [s \in Sessions |-> Unset]
    /\ saved = {}
    /\ run = [none |-> TRUE]

\* ------------------------------------------------------- specifications
Quiet ==
    /\ now = 0
    /\ ticks = 0
    /\ cache = NoCache
    /\ lastPrice = NoCall

InitPrice ==
    /\ Quiet
    /\ call = Idle
    /\ dash = Idle
    /\ NoConfig

NextPrice == Tick \/ PriceCall

SpecPrice == InitPrice /\ [][NextPrice]_vars

InitFetch ==
    /\ Quiet
    /\ \/ \E r \in BtcReplies, m \in Markets : call = Input("btc", r, m)
       \/ \E r \in BinanceReplies, m \in Markets : call = Input("binance", r, m)
       \/ \E r \in EthReplies, m \in Markets : call = Input("eth", r, m)
       \/ \E r1 \in SolReplies, m \in Markets :
            \E r2 \in (IF r1.status = 404 THEN SolReplies ELSE SolLater) :
                call = Input("sol", <<r1, r2>>, m)
       \/ \E a \in Assets, r \in TickerReplies : call = Input("price", a, r)
    /\ dash = Idle
    /\ NoConfig

InitDash ==
    /\ Quiet
    /\ call = Idle
    /\ \E accts \in SeqsUpTo(DashAccounts, MaxAccounts),
          addrs \in SeqsUpTo(DashAddresses, MaxAddresses),
          m \in DashMarkets :
            dash = [accounts |-> accts, addresses |-> addrs, market |-> m,
                    done |-> FALSE]
    /\ NoConfig

NextDash == DashboardPage

SpecDash == InitDash /\ [][NextDash]_vars

InitConfig ==
    /\ Quiet
    /\ call = Idle
    /\ dash = Idle
    /\ file \in StartFiles
    /\ sess = [s \in Sessions |-> Unset]
    /\ saved = IF file.kind = "object" THEN Labels(file) ELSE {}
    /\ run = [none |-> TRUE]

NextConfig == ViewPage \/ AddAccount \/ AddAddress \/ DeleteAccount \/ DeleteAddress

SpecConfig == InitConfig /\ [][NextConfig]_vars

NextFetch == CallBinance \/ CallEth \/ CallSol \/ CallBtc \/ CallPrice

SpecFetch == InitFetch /\ [][NextFetch]_vars

\* The application as a whole: any of the starts above, any of the steps.
Init == InitPrice \/ InitFetch \/ InitDash \/ InitConfig
Next == NextPrice \/ NextFetch \/ NextDash \/ NextConfig
Spec == Init /\ [][Next]_vars

\* ----------------------------------------------------------- properties
Is404(r) == r.net = "ok" /\ r.status = 404
Is200(r) == r.net = "ok" /\ r.status = 200
\* The reply that ends the variant chain: the first that is not a 404.
Deciding(replies) == IF Is404(replies[1]) THEN replies[2] ELSE replies[1]
Indices(seq) == 1..Len(seq)

\* C3: a call of price_usdt makes a network request exactly when its symbol
\* is not a stablecoin and the cache holds no entry for it younger than 300
\* seconds; a value served from the cache is that of an entry younger than
\* 300 seconds, and an expired entry is never served.
C3_Fresh ==
    /\ lastPrice.before # NoEntry
    /\ lastPrice.at - lastPrice.before.stored < 300
C3_RequestIffStaleNonStable ==
    lastPrice # NoCall =>
        /\ lastPrice.requested <=>
              (Upper(lastPrice.asset) \notin {"USDT", "BUSD", "FDUSD"} /\ ~C3_Fresh)
        /\ lastPrice.hit => (C3_Fresh /\ lastPrice.value = lastPrice.before.value)
        /\ ~C3_Fresh => ~lastPrice.hit
\* An entry aged exactly 300 seconds is refetched.
C3_Witness ==
    /\ lastPrice # NoCall
    /\ lastPrice.before # NoEntry
    /\ lastPrice.at - lastPrice.before.stored = 300
    /\ lastPrice.requested
    /\ ~lastPrice.hit

\* Whether the upstream document of a finished fetcher call is one the
\* fetcher can read: the request succeeded and, for the Solana list, no
\* entry has a JSON null where an object or a string is expected.
C4_ReadableList(l) ==
    \A i \in Indices(l) :
        /\ l[i].tokenAmount.kind # "null"
        /\ l[i].tokenAmount.amount # NullStr
C4_UpstreamFine ==
    IF call.fn = "sol"
    THEN LET d == Deciding(call.reply) IN
         \/ Is404(d)
         \/ Is200(d) /\ C4_ReadableList(d.body.list)
    ELSE Is200(call.reply)
C4_TickerFailed(asset) ==
    /\ Upper(asset) \notin {"USDT", "BUSD", "FDUSD"}
    /\ ~TickerOk(MarketReply(call.market, asset))
\* C4: for a symbol that is not a stablecoin, price_usdt returns 0 and raises
\* nothing when the ticker lookup fails, whatever the failure; a fetcher
\* whose own upstream document is fine never raises, and the records it
\* prices through a failed lookup carry a USD value of 0.
C4_PriceFailureIsZero ==
    call.done =>
        /\ (call.fn = "price" /\ Upper(call.reply) \notin {"USDT", "BUSD", "FDUSD"}
                /\ ~TickerOk(call.market))
              => (call.raised = "none" /\ call.out = 0 /\ call.requested)
        /\ (call.fn \in {"binance", "eth", "sol", "btc"} /\ C4_UpstreamFine)
              => call.raised = "none"
        /\ call.fn \in {"binance", "sol", "btc"} =>
              \A i \in Indices(call.out) :
                  C4_TickerFailed(call.out[i].asset) => call.out[i].usd = 0
\* A record of the exchange fetcher whose price lookup found no price key.
C4_Witness ==
    /\ call.done
    /\ call.fn = "binance"
    /\ call.raised = "none"
    /\ \E i \in Indices(call.out) :
          /\ call.out[i].asset = "BTC"
          /\ call.market["BTC"].body = "no_price_key"
          /\ call.out[i].amount > 0
          /\ call.out[i].usd = 0

\* C5: fetch_sol requests ?account= first and ?address= only after a 404;
\* the first reply that is not a 404 ends the chain: on success its payload
\* is what the fetcher processes, on any other failure the error is raised;
\* when both variants answer 404 the result is the empty list, nothing
\* raised.
C5_VariantChain ==
    (call.fn = "sol" /\ call.done) =>
        LET r1 == call.reply[1]
            r2 == call.reply[2]
            d == Deciding(call.reply)
        IN  /\ call.requests =
                  (IF Is404(r1) THEN <<"?account=", "?address=">> ELSE <<"?account=">>)
            /\ (Is404(r1) /\ Is404(r2)) => (call.raised = "none" /\ call.out = <<>>)
            /\ (~Is404(d) /\ ~Is200(d)) => (call.raised # "none" /\ call.out = <<>>)
            /\ (Is200(d) /\ d.body.kind = "null") => (call.raised = "none" /\ call.out = <<>>)
            /\ (Is200(d) /\ d.body.kind = "list") =>
                  LET r == sol_loop(d.body.list, 1, <<>>, call.market, NoCache, 0) IN
                  call.raised = r.raised /\ call.out = r.out
\* The first variant answers 404 and the second a list with a record in it.
C5_Witness ==
    /\ call.fn = "sol" /\ call.done
    /\ Is404(call.reply[1])
    /\ Is200(call.reply[2])
    /\ call.requests = Variants
    /\ Len(call.out) = 1
    /\ call.out[1].amount = Scale

\* The quantity of a token entry as the specification gives it: the raw
\* amount over 10^decimals, 0 when decimals is unset or zero, and nothing to
\* emit when the amount cannot be parsed.
C6_Quantity(tk) ==
    IF tk.tokenAmount.kind # "object" THEN 0
    ELSE IF tk.tokenAmount.amount \notin {"1000000", "150", "0", "-1000000"} THEN 0
    ELSE LET d == tk.tokenAmount.decimals IN
         IF d.kind # "number" THEN 0
         ELSE IF d.num = 0 THEN 0
         ELSE (ParseInt(tk.tokenAmount.amount) * Scale) \div Pow10(d.num)
C6_Positive(tk) == C6_Quantity(tk) > 0
\* C6: on a successful Solana response the fetcher returns, without raising,
\* one record for each entry whose quantity is positive, carrying that
\* quantity, and skips every entry whose amount is not positive or cannot be
\* parsed.
C6_PositiveQuantitiesOnly ==
    (call.fn = "sol" /\ call.done /\ Is200(Deciding(call.reply))
        /\ Deciding(call.reply).body.kind = "list") =>
        LET kept == SelectSeq(Deciding(call.reply).body.list, C6_Positive) IN
        /\ call.raised = "none"
        /\ Len(call.out) = Len(kept)
        /\ \A i \in Indices(call.out) : call.out[i].amount = C6_Quantity(kept[i])

C7_Total(b) == ParseFloat(b.free) + ParseFloat(b.locked)
C7_Positive(b) == C7_Total(b) > 0
\* C7: on HTTP success the exchange fetcher returns, in input order, one
\* record for each balance entry whose free + locked is greater than 0, with
\* that total as amount and total * price(asset) as usd, and no record for
\* any other entry.
C7_PositiveTotalsOnly ==
    (call.fn = "binance" /\ call.done /\ Is200(call.reply)) =>
        LET kept == SelectSeq(call.reply.body, C7_Positive) IN
        /\ call.raised = "none"
        /\ Len(call.out) = Len(kept)
        /\ \A i \in Indices(call.out) :
              /\ call.out[i].asset = kept[i].asset
              /\ call.out[i].amount = C7_Total(kept[i])
              /\ call.out[i].usd = C7_Total(kept[i]) * cache[kept[i].asset].value

\* C8: every record a fetcher returns has an amount greater than zero.
C8_AmountsPositive ==
    (call.done /\ call.fn \in {"binance", "eth", "sol", "btc"}) =>
        \A i \in Indices(call.out) : call.out[i].amount > 0

\* Whether the upstream of a source makes its fetcher raise.
FetchFails(src) ==
    IF src.chain = "SOL"
    THEN ~Is404(Deciding(src.reply)) /\ ~Is200(Deciding(src.reply))
    ELSE ~Is200(src.reply)
\* What the fetcher of a source returns when called on its own.
FetchAlone(src) ==
    IF src.kind = "accounts"
    THEN fetch_binance(src.reply, dash.market, NoCache, 0)
    ELSE fetch_address(src, dash.market, NoCache, 0)
RECURSIVE SumAsset(_, _, _)
SumAsset(recs, asset, i) ==
    IF i > Len(recs) THEN 0
    ELSE (IF recs[i].asset = asset THEN recs[i].usd ELSE 0) + SumAsset(recs, asset, i + 1)
\* The USD all records of the succeeding sources carry for an asset.
RECURSIVE Contribution(_, _, _)
Contribution(srcs, asset, i) ==
    IF i > Len(srcs) THEN 0
    ELSE (IF FetchFails(srcs[i]) THEN 0 ELSE SumAsset(FetchAlone(srcs[i]).out, asset, 1))
            + Contribution(srcs, asset, i + 1)
\* The assets the records of the succeeding sources name.
Contributed(srcs) ==
    {a \in Assets :
        \E i \in Indices(srcs) :
            /\ ~FetchFails(srcs[i])
            /\ \E k \in Indices(FetchAlone(srcs[i]).out) : FetchAlone(srcs[i]).out[k].asset = a}

\* C1: a Dashboard pass over a registry in which fetchers raise still runs
\* to its end; it reports exactly the failing sources, each under its own
\* label and in loop order, and the aggregate holds, for every asset, all
\* the USD of every record of every source that did not fail, wherever the
\* failing sources stand in the loop.
C1_FailureIsPerSource ==
    dash.done =>
        LET srcs == Sources(dash)
            failing == SelectSeq(srcs, FetchFails)
        IN  /\ Len(dash.errors) = Len(failing)
            /\ \A i \in Indices(failing) : dash.errors[i].label = failing[i].label
            /\ \A a \in Contributed(srcs) :
                  \E k \in Indices(dash.agg) :
                      dash.agg[k].asset = a /\ dash.agg[k].usd = Contribution(srcs, a, 1)
            /\ Len(dash.rows) = Len(dash.agg)
\* The second of three sources fails; the first and the third both put
\* their USD into the aggregate.
C1_Witness ==
    /\ dash.done
    /\ Len(Sources(dash)) = 3
    /\ ~FetchFails(Sources(dash)[1])
    /\ FetchFails(Sources(dash)[2])
    /\ ~FetchFails(Sources(dash)[3])
    /\ Len(dash.errors) = 1
    /\ dash.errors[1].label = Sources(dash)[2].label
    /\ \E k \in Indices(dash.agg) :
          /\ SumAsset(FetchAlone(Sources(dash)[1]).out, dash.agg[k].asset, 1) > 0
          /\ SumAsset(FetchAlone(Sources(dash)[3]).out, dash.agg[k].asset, 1) > 0
          /\ dash.agg[k].usd = SumAsset(FetchAlone(Sources(dash)[1]).out, dash.agg[k].asset, 1)
                                + SumAsset(FetchAlone(Sources(dash)[3]).out, dash.agg[k].asset, 1)

\* C2: the aggregate holds each asset once, with the sum of the usd of all
\* records of that asset over all sources fetched; the total is the sum of
\* the aggregate's values; the rows are the aggregate's entries in order of
\* non-increasing USD.
C2_SumTotalSorted ==
    dash.done =>
        LET srcs == Sources(dash) IN
        /\ \A k \in Indices(dash.agg) :
              /\ dash.agg[k].asset \in Contributed(srcs)
              /\ dash.agg[k].usd = Contribution(srcs, dash.agg[k].asset, 1)
              /\ \A j \in Indices(dash.agg) : dash.agg[j].asset = dash.agg[k].asset => j = k
        /\ Cardinality(Contributed(srcs)) = Len(dash.agg)
        /\ dash.total = SumUsd(dash.agg, 1)
        /\ Len(dash.rows) = Len(dash.agg)
        /\ \A k \in Indices(dash.agg) : \E j \in Indices(dash.rows) : dash.rows[j] = dash.agg[k]
        /\ \A j \in Indices(dash.rows) :
              j < Len(dash.rows) => dash.rows[j].usd >= dash.rows[j + 1].usd
\* Sources {ETH: 10} and {ETH: 5, BTC: 20} give {ETH: 15, BTC: 20}, total
\* 35, rows BTC then ETH.
C2_Witness ==
    /\ dash.done
    /\ dash.errors = <<>>
    /\ dash.agg = <<[asset |-> "ETH", usd |-> 15], [asset |-> "BTC", usd |-> 20]>>
    /\ dash.total = 35
    /\ dash.rows = <<[asset |-> "BTC", usd |-> 20], [asset |-> "ETH", usd |-> 15]>>

\* C9: loading the configuration never fails: from an absent file, and from
\* a file that is not JSON or is JSON of another shape than the expected
\* object, the run gets the empty configuration, with a warning unless the
\* file was absent, and the page that then reads it runs without error.
C9_LoadRecovers ==
    (~run.none /\ run.from \in {"absent", "invalid", "list"}) =>
        /\ run.loaded = EmptyCfg
        /\ run.from # "absent" => run.warned
        /\ run.op = "view" => run.crashed = "none"

\* C10: after an add or delete the file equals the cfg of the session that
\* made it, also when the write fails, in which case the failure is
\* reported and the run goes on; and a label once written stays in the file
\* until it is deleted, whichever session writes.
C10_PersistedEqualsMemory ==
    /\ (~run.none /\ run.wrote # "none") =>
          /\ file = sess[run.session]
          /\ run.wrote # "written" => (run.reported /\ run.crashed = "none")
    /\ file.kind = "object" => saved \subseteq Labels(file)
    /\ saved # {} => file.kind = "object"

====
